---- MODULE Spec2Model ----
(***************************************************************************)
(* idr-formatting: formatIdr / parseIdr / FixedIdr (src/index.ts, the      *)
(* BigInt version of the library).                                         *)
(*                                                                         *)
(* A text is a sequence of one-character strings, <<"1", ".", "5">> for    *)
(* "1.5".  A bigint is its decimal digit text without leading zeros.  A    *)
(* JS number is its exact decimal expansion (sign, integer digits without  *)
(* leading zeros, fraction digits without trailing zeros); Number(text)    *)
(* and String(number) are exact on it for up to 15 significant digits and  *)
(* magnitudes in [1e-6, 1e21), which covers every text the bounds below    *)
(* allow.                                                                  *)
(***************************************************************************)
EXTENDS Integers, Sequences, FiniteSets

VARIABLES vals, script

vars == <<vals, script>>

(***************************************************************************)
(* Characters and JS string primitives                                     *)
(***************************************************************************)
Digits == {"0", "1", "2", "3", "4", "5", "6", "7", "8", "9"}

Whitespace == {" "}

IsDigit(c) == c \in Digits

NotComma(c) == c # ","

NotDot(c) == c # "."

NotSpace(c) == c \notin Whitespace

IsDigitOrComma(c) == c \in Digits \cup {","}

IsDigitDotComma(c) == c \in Digits \cup {".", ","}

DigitVal(c) ==
  CASE c = "0" -> 0 [] c = "1" -> 1 [] c = "2" -> 2 [] c = "3" -> 3
    [] c = "4" -> 4 [] c = "5" -> 5 [] c = "6" -> 6 [] c = "7" -> 7
    [] c = "8" -> 8 [] c = "9" -> 9

DigitChar(n) ==
  CASE n = 0 -> "0" [] n = 1 -> "1" [] n = 2 -> "2" [] n = 3 -> "3"
    [] n = 4 -> "4" [] n = 5 -> "5" [] n = 6 -> "6" [] n = 7 -> "7"
    [] n = 8 -> "8" [] n = 9 -> "9"

Max(a, b) == IF a >= b THEN a ELSE b

Min(a, b) == IF a <= b THEN a ELSE b

\* s.slice(from, to) with 0-based, already clamped, non-negative indices
Slice(s, from, to) == IF to <= from THEN <<>> ELSE SubSeq(s, from + 1, to)

\* s.slice(-n): the last n characters; s.slice(-0) is s.slice(0), the whole text
SliceLast(s, n) == IF n = 0 THEN s ELSE Slice(s, Max(0, Len(s) - n), Len(s))

RECURSIVE Repeat(_, _)
Repeat(c, n) == IF n <= 0 THEN <<>> ELSE <<c>> \o Repeat(c, n - 1)

PadEnd(s, n, c) == s \o Repeat(c, n - Len(s))

PadStart(s, n, c) == Repeat(c, n - Len(s)) \o s

RECURSIVE TrimStart(_)
TrimStart(s) ==
  IF s # <<>> /\ Head(s) \in Whitespace THEN TrimStart(Tail(s)) ELSE s

RECURSIVE TrimEnd(_)
TrimEnd(s) ==
  IF s # <<>> /\ s[Len(s)] \in Whitespace
  THEN TrimEnd(SubSeq(s, 1, Len(s) - 1))
  ELSE s

Trim(s) == TrimEnd(TrimStart(s))

Includes(s, c) == \E k \in 1..Len(s) : s[k] = c

\* s.indexOf(c): 0-based, -1 when absent
IndexOf(s, c) ==
  IF Includes(s, c)
  THEN (CHOOSE k \in 1..Len(s) : s[k] = c /\ \A j \in 1..(k - 1) : s[j] # c) - 1
  ELSE -1

\* s.split(sep): the pieces between the separators, at least one piece
RECURSIVE Split(_, _)
Split(s, sep) ==
  LET k == IndexOf(s, sep)
  IN IF k < 0
     THEN <<s>>
     ELSE <<Slice(s, 0, k)>> \o Split(Slice(s, k + 1, Len(s)), sep)

\* s.split(sep, limit): the first `limit` pieces; the others are dropped
SplitLimit(s, sep, limit) ==
  LET parts == Split(s, sep) IN SubSeq(parts, 1, Min(limit, Len(parts)))

\* const [a, b = ""] = parts
First(parts) == parts[1]

SecondOrEmpty(parts) == IF Len(parts) >= 2 THEN parts[2] ELSE <<>>

\* s.replace(from, to) with a string pattern: the first occurrence only
ReplaceFirst(s, from, to) ==
  LET k == IndexOf(s, from)
  IN IF k < 0 THEN s ELSE Slice(s, 0, k) \o <<to>> \o Slice(s, k + 1, Len(s))

\* without the default
OrNothing(s) == s

\* x || "0" on texts
OrZero(s) == IF s = <<>> THEN <<"0">> ELSE s

\* s.replace(/^0+(?!$)/, "")
RECURSIVE StripLeadingZeros(_)
StripLeadingZeros(s) ==
  IF Len(s) > 1 /\ Head(s) = "0" THEN StripLeadingZeros(Tail(s)) ELSE s

(***************************************************************************)
(* BigInt on digit texts                                                   *)
(***************************************************************************)
\* BigInt(text).toString() for a text of digits ("" is 0n)
BigIntOf(digits) == StripLeadingZeros(OrZero(digits))

\* (b + 1n) on the digit text of b
RECURSIVE BigIntAddOne(_)
BigIntAddOne(b) ==
  IF b = <<>> THEN <<"1">>
  ELSE LET last == b[Len(b)]
           init == SubSeq(b, 1, Len(b) - 1)
       IN IF last = "9"
          THEN BigIntAddOne(init) \o <<"0">>
          ELSE init \o <<DigitChar(DigitVal(last) + 1)>>

(***************************************************************************)
(* Values: null, a text, a JS number, a FixedIdr                           *)
(***************************************************************************)
Null == [k |-> "null"]

Str(s) == [k |-> "string", s |-> s]

Num(neg, i, d) == [k |-> "number", neg |-> neg, i |-> i, d |-> d]

FixedIdr(sign, units, scale) ==
  [k |-> "fixed", sign |-> sign, units |-> units, scale |-> scale]

\* decimals: "auto" is written Auto; a number N >= 0 is itself
Auto == -1

RECURSIVE StripTrailingZeros(_)
StripTrailingZeros(s) ==
  IF s # <<>> /\ s[Len(s)] = "0"
  THEN StripTrailingZeros(SubSeq(s, 1, Len(s) - 1))
  ELSE s

\* the decimal digits left out, as parseInt would
NumberOfInteger(neg, intDigits, decDigits) ==
  Num(neg, StripLeadingZeros(OrZero(intDigits)), <<>>)

\* Number(sign + intDigits + ("." + decDigits)) for digit texts
NumberOf(neg, intDigits, decDigits) ==
  Num(neg, StripLeadingZeros(OrZero(intDigits)), StripTrailingZeros(decDigits))

NumIsZero(n) == n.i = <<"0">> /\ n.d = <<>>

\* String(n) in decimal notation; String(-0) is "0"
NumToString(n) ==
  (IF n.neg /\ ~NumIsZero(n) THEN <<"-">> ELSE <<>>)
    \o n.i \o (IF n.d = <<>> THEN <<>> ELSE <<".">> \o n.d)

(***************************************************************************)
(* Helpers of src/index.ts                                                 *)
(***************************************************************************)
RECURSIVE GroupChunks(_)
GroupChunks(digits) ==
  IF Len(digits) <= 3
  THEN digits
  ELSE GroupChunks(Slice(digits, 0, Len(digits) - 3))
         \o <<".">> \o Slice(digits, Len(digits) - 3, Len(digits))

\* without the removal of leading zeros
groupThousandsStrKeepingZeros(digits) == GroupChunks(OrZero(digits))

groupThousandsStr(digits) == GroupChunks(OrZero(StripLeadingZeros(digits)))

\* rounding kept, padding forgotten: a decimal part shorter than `decimals`
\* is returned as it is
applyFixedDecimalsUnpadded(intDigits, decDigits, decimals) ==
  LET cleanI == OrZero(SelectSeq(OrZero(intDigits), IsDigit))
      cleanD == SelectSeq(decDigits, IsDigit)
  IN IF decimals <= 0
     THEN [i |-> IF cleanD # <<>> /\ DigitVal(cleanD[1]) >= 5
                 THEN BigIntAddOne(BigIntOf(cleanI)) ELSE BigIntOf(cleanI),
           d |-> <<>>]
     ELSE IF Len(cleanD) <= decimals THEN [i |-> cleanI, d |-> cleanD]
     ELSE IF DigitVal(cleanD[decimals + 1]) < 5
     THEN [i |-> cleanI, d |-> Slice(cleanD, 0, decimals)]
     ELSE LET inc == PadStart(BigIntAddOne(BigIntOf(cleanI \o Slice(cleanD, 0, decimals))),
                              Len(cleanI) + decimals, "0")
          IN [i |-> OrZero(Slice(inc, 0, Len(inc) - decimals)),
              d |-> SliceLast(inc, decimals)]

\* toFixed-less cut: the digits beyond `decimals` dropped without rounding
applyFixedDecimalsTruncating(intDigits, decDigits, decimals) ==
  [i |-> BigIntOf(OrZero(SelectSeq(OrZero(intDigits), IsDigit))),
   d |-> PadEnd(Slice(SelectSeq(decDigits, IsDigit), 0,
                      Min(Max(decimals, 0), Len(SelectSeq(decDigits, IsDigit)))),
                decimals, "0")]

applyFixedDecimals(intDigits, decDigits, decimals) ==
  LET cleanI == OrZero(SelectSeq(OrZero(intDigits), IsDigit))
      cleanD == SelectSeq(decDigits, IsDigit)
  IN IF decimals <= 0
     THEN LET carry == cleanD # <<>> /\ DigitVal(cleanD[1]) >= 5
              big == IF carry THEN BigIntAddOne(BigIntOf(cleanI)) ELSE BigIntOf(cleanI)
          IN [i |-> big, d |-> <<>>]
     ELSE IF Len(cleanD) = decimals THEN [i |-> cleanI, d |-> cleanD]
     ELSE IF Len(cleanD) < decimals
     THEN [i |-> cleanI, d |-> PadEnd(cleanD, decimals, "0")]
     ELSE LET keep == Slice(cleanD, 0, decimals)
              next == cleanD[decimals + 1]
          IN IF DigitVal(next) < 5
             THEN [i |-> cleanI, d |-> keep]
             ELSE LET inc == PadStart(BigIntAddOne(BigIntOf(cleanI \o keep)),
                                      Len(cleanI) + Len(keep), "0")
                  IN [i |-> OrZero(Slice(inc, 0, Len(inc) - decimals)),
                      d |-> SliceLast(inc, decimals)]

\* the earlier release (src/unnamed/part_000:22-23, 63-66): later commas kept
keepEveryComma(s) == s

keepFirstCommaOnly(s) ==
  LET idx == IndexOf(s, ",")
  IN IF idx < 0
     THEN s
     ELSE Slice(s, 0, idx + 1) \o SelectSeq(Slice(s, idx + 1, Len(s)), NotComma)

\* the scale taken after the trailing zeros of the decimals are dropped
makeFixedTrimmingZeros(sign, intDigits, decDigits) ==
  LET i == OrZero(StripLeadingZeros(intDigits))
      d == StripTrailingZeros(SelectSeq(decDigits, IsDigit))
  IN FixedIdr(sign, BigIntOf(i \o d), Len(d))

makeFixed(sign, intDigits, decDigits) ==
  LET i == OrZero(StripLeadingZeros(intDigits))
      d == SelectSeq(decDigits, IsDigit)
  IN FixedIdr(sign, BigIntOf(i \o d), Len(d))

\* without the zero padding: units 5 at scale 2 come out as ".5"
FixedToStringUnpadded(fx) ==
  LET minus == IF fx.sign = -1 THEN <<"-">> ELSE <<>>
  IN IF fx.scale = 0
     THEN minus \o fx.units
     ELSE LET s == fx.units
              head == Slice(s, 0, Len(s) - fx.scale)
              tail == SliceLast(s, fx.scale)
          IN minus \o head \o <<".">> \o tail

\* FixedIdr.toString()
FixedToString(fx) ==
  LET minus == IF fx.sign = -1 THEN <<"-">> ELSE <<>>
  IN IF fx.scale = 0
     THEN minus \o fx.units
     ELSE LET s == PadStart(fx.units, fx.scale + 1, "0")
              head == Slice(s, 0, Len(s) - fx.scale)
              tail == SliceLast(s, fx.scale)
          IN minus \o head \o <<".">> \o tail

isFixedIdr(v) == v.k = "fixed"

(***************************************************************************)
(* formatIdr                                                               *)
(***************************************************************************)
\* padZeros applied to an absent decimal part too: "1000" becomes "1.000,00"
finishPadsAbsent(intDigits, rawDecimals, decimals, padZeros) ==
  IF decimals = Auto
  THEN LET iFmt == groupThousandsStr(intDigits)
       IN IF rawDecimals = <<>> /\ ~padZeros
          THEN iFmt
          ELSE iFmt \o <<",">>
                 \o (IF padZeros THEN PadEnd(rawDecimals, 2, "0") ELSE rawDecimals)
  ELSE LET r == applyFixedDecimals(intDigits, rawDecimals, decimals)
           iFmt == groupThousandsStr(r.i)
       IN IF decimals > 0 THEN iFmt \o <<",">> \o r.d ELSE iFmt

\* the inner function finish(intDigits, rawDecimals?) of formatIdr; an absent
\* rawDecimals and "" take the same path in both branches (!x, x ?? "")
finish(intDigits, rawDecimals, decimals, padZeros) ==
  IF decimals = Auto
  THEN LET iFmt == groupThousandsStr(intDigits)
       IN IF rawDecimals = <<>>
          THEN iFmt
          ELSE iFmt \o <<",">>
                 \o (IF padZeros THEN PadEnd(rawDecimals, 2, "0") ELSE rawDecimals)
  ELSE LET r == applyFixedDecimals(intDigits, rawDecimals, decimals)
           iFmt == groupThousandsStr(r.i)
       IN IF decimals > 0 THEN iFmt \o <<",">> \o r.d ELSE iFmt

\* the earlier release (src/unnamed/part_000:30-37): no grouping test, every
\* dot is a decimal point
thousandPatternMissing(s) == FALSE

\* /^\d{1,3}(\.\d{3})+$/.test(s)
thousandPattern(s) ==
  LET parts == Split(s, ".")
  IN /\ Len(parts) >= 2
     /\ Len(parts[1]) \in 1..3
     /\ \A k \in 1..Len(parts) : \A j \in 1..Len(parts[k]) : IsDigit(parts[k][j])
     /\ \A k \in 2..Len(parts) : Len(parts[k]) = 3

\* the branch of formatIdr taken when str includes ","
formatComma(str, decimals, padZeros) ==
  LET only == SelectSeq(str, IsDigitOrComma)
      raw == keepFirstCommaOnly(only)
      parts == Split(raw, ",")
      intDigits == OrZero(SelectSeq(First(parts), IsDigit))
      decDigits == SelectSeq(SecondOrEmpty(parts), IsDigit)
  IN finish(intDigits, decDigits, decimals, padZeros)

\* the branch of formatIdr taken when str includes "." and no ","
formatDot(str, decimals, padZeros) ==
  LET s == SelectSeq(str, NotSpace)
  IN IF thousandPattern(s)
     THEN finish(OrZero(SelectSeq(s, NotDot)), <<>>, decimals, padZeros)
     ELSE LET parts == SplitLimit(s, ".", 2)
              intDigits == OrZero(SelectSeq(First(parts), IsDigit))
              decDigits == SelectSeq(SecondOrEmpty(parts), IsDigit)
          IN finish(intDigits, decDigits, decimals, padZeros)

\* the branch of formatIdr for plain digits
formatPlain(str, decimals, padZeros) ==
  finish(OrZero(SelectSeq(str, IsDigit)), <<>>, decimals, padZeros)

\* formatIdr from `let str = String(value).trim()` on, given String(value)
formatString(text, decimals, padZeros) ==
  LET trimmed == Trim(text)
      negative == trimmed # <<>> /\ Head(trimmed) = "-"
      str == IF negative THEN Tail(trimmed) ELSE trimmed
      display == IF Includes(str, ",") THEN formatComma(str, decimals, padZeros)
                 ELSE IF Includes(str, ".") THEN formatDot(str, decimals, padZeros)
                 ELSE formatPlain(str, decimals, padZeros)
  IN IF negative THEN <<"-">> \o display ELSE display

\* String(value) of a string or number argument
StringOf(value) == IF value.k = "number" THEN NumToString(value) ELSE value.s

\* the empty result given to every text without a digit as well
formatIdrEmptyWithoutDigits(value, decimals, padZeros) ==
  IF value = Null \/ value = Str(<<>>) THEN Str(<<>>)
  ELSE IF isFixedIdr(value)
  THEN Str(formatString(FixedToString(value), decimals, padZeros))
  ELSE IF SelectSeq(StringOf(value), IsDigit) = <<>> THEN Str(<<>>)
  ELSE Str(formatString(StringOf(value), decimals, padZeros))

formatIdr(value, decimals, padZeros) ==
  IF value = Null \/ value = Str(<<>>) THEN Str(<<>>)
  ELSE IF isFixedIdr(value)
  THEN Str(formatString(FixedToString(value), decimals, padZeros))
  ELSE Str(formatString(StringOf(value), decimals, padZeros))

(***************************************************************************)
(* parseIdr                                                                *)
(***************************************************************************)
\* a text without integer digits taken as invalid: ",5" is then null
parseIdrNeedingInteger(value, mode) ==
  IF value = Null \/ value = Str(<<>>) THEN Null
  ELSE LET trimmed == Trim(StringOf(value))
           isNegative == trimmed # <<>> /\ Head(trimmed) = "-"
           s0 == SelectSeq(IF isNegative THEN Tail(trimmed) ELSE trimmed,
                           IsDigitDotComma)
           s1 == keepFirstCommaOnly(s0)
           normalized == ReplaceFirst(SelectSeq(s1, NotDot), ",", ".")
           parts == Split(normalized, ".")
           intDigits == SelectSeq(First(parts), IsDigit)
           decDigits == SelectSeq(SecondOrEmpty(parts), IsDigit)
       IN IF s0 = <<>> THEN Null
          ELSE IF normalized = <<>> \/ normalized = <<".">> THEN Null
          ELSE IF intDigits = <<>> THEN Null
          ELSE IF mode = "fixed"
          THEN makeFixed(IF isNegative THEN -1 ELSE 1, intDigits, decDigits)
          ELSE NumberOf(isNegative, intDigits, decDigits)

\* the dots left in: Number("1.500") is then 1.5
parseIdrKeepingDots(value, mode) ==
  IF value = Null \/ value = Str(<<>>) THEN Null
  ELSE LET trimmed == Trim(StringOf(value))
           isNegative == trimmed # <<>> /\ Head(trimmed) = "-"
           s0 == SelectSeq(IF isNegative THEN Tail(trimmed) ELSE trimmed,
                           IsDigitDotComma)
           s1 == keepFirstCommaOnly(s0)
           normalized == ReplaceFirst(s1, ",", ".")
           parts == Split(normalized, ".")
           intDigits == OrZero(SelectSeq(First(parts), IsDigit))
           decDigits == SelectSeq(SecondOrEmpty(parts), IsDigit)
       IN IF s0 = <<>> THEN Null
          ELSE IF normalized = <<>> \/ normalized = <<".">> THEN Null
          ELSE IF mode = "fixed"
          THEN makeFixed(IF isNegative THEN -1 ELSE 1, intDigits, decDigits)
          ELSE NumberOf(isNegative, intDigits, decDigits)

\* Number.isFinite(num) holds of every text of fewer than 309 digits, so the
\* null of line 238 is not reached by the texts modelled here
parseIdr(value, mode) ==
  IF value = Null \/ value = Str(<<>>) THEN Null
  ELSE LET trimmed == Trim(StringOf(value))
           isNegative == trimmed # <<>> /\ Head(trimmed) = "-"
           s0 == SelectSeq(IF isNegative THEN Tail(trimmed) ELSE trimmed,
                           IsDigitDotComma)
           s1 == keepFirstCommaOnly(s0)
           normalized == ReplaceFirst(SelectSeq(s1, NotDot), ",", ".")
           parts == Split(normalized, ".")
           intDigits == OrZero(SelectSeq(First(parts), IsDigit))
           decDigits == SelectSeq(SecondOrEmpty(parts), IsDigit)
       IN IF s0 = <<>> THEN Null
          ELSE IF normalized = <<>> \/ normalized = <<".">> THEN Null
          ELSE IF mode = "fixed"
          THEN makeFixed(IF isNegative THEN -1 ELSE 1, intDigits, decDigits)
          ELSE NumberOf(isNegative, intDigits, decDigits)

(***************************************************************************)
(* Callers.  A behaviour is one caller running a fixed script of calls on  *)
(* one input: vals[1] is the input and vals[k + 1] the value returned by   *)
(* script[k], whose argument is the earlier value vals[script[k].on].      *)
(***************************************************************************)
FormatCall(on, decimals, padZeros) ==
  [fn |-> "formatIdr", on |-> on, decimals |-> decimals, padZeros |-> padZeros]

ParseCall(on, mode) == [fn |-> "parseIdr", on |-> on, mode |-> mode]

\* the caller edits a text: one character typed or pasted at offset `at`
InsertCall(on, at, ch) == [fn |-> "insert", on |-> on, at |-> at, ch |-> ch]

InsertAt(s, at, ch) == Slice(s, 0, at) \o <<ch>> \o Slice(s, at, Len(s))

Pending == Len(vals) <= Len(script)

Current == script[Len(vals)]

Done == Len(vals) = Len(script) + 1

CallFormat ==
  /\ Pending
  /\ Current.fn = "formatIdr"
  /\ vals' = Append(vals, formatIdr(vals[Current.on], Current.decimals, Current.padZeros))
  /\ UNCHANGED script

CallParse ==
  /\ Pending
  /\ Current.fn = "parseIdr"
  /\ vals' = Append(vals, parseIdr(vals[Current.on], Current.mode))
  /\ UNCHANGED script

EditText ==
  /\ Pending
  /\ Current.fn = "insert"
  /\ vals' = Append(vals, Str(InsertAt(vals[Current.on].s, Current.at, Current.ch)))
  /\ UNCHANGED script

\* the caller takes the canonical string of a FixedIdr it was given
ToStringCall(on) == [fn |-> "toString", on |-> on]

\* on null there is no toString to call: the caller stops
CallToString ==
  /\ Pending
  /\ Current.fn = "toString"
  /\ isFixedIdr(vals[Current.on])
  /\ vals' = Append(vals, Str(FixedToString(vals[Current.on])))
  /\ UNCHANGED script

\* the caller deletes every occurrence of one character from a text
RemoveCall(on, ch) == [fn |-> "remove", on |-> on, ch |-> ch]

RemoveAll(s, ch) == SelectSeq(s, LAMBDA c : c # ch)

RemoveChars ==
  /\ Pending
  /\ Current.fn = "remove"
  /\ vals' = Append(vals, Str(RemoveAll(vals[Current.on].s, Current.ch)))
  /\ UNCHANGED script

\* the host binding of the README: the text the input shows and the value of
\* the hidden input submitted with the form
Field(shown, hidden) == [k |-> "field", s |-> shown, hidden |-> hidden]

\* the user types one character at the end of the input
TypeCall(ch) == [fn |-> "type", ch |-> ch]

\* the controller's format(), run on the input event of one typed character:
\* the text is cleaned to [0-9,], replaced by its formatIdr, and parseIdr of
\* the text shown goes to the hidden input; the caret is put at the end
Keystroke ==
  /\ Pending
  /\ Current.fn = "type"
  /\ LET typed == vals[Len(vals)].s \o <<Current.ch>>
         cleaned == SelectSeq(typed, IsDigitOrComma)
         shown == formatIdr(Str(cleaned), Auto, FALSE)
     IN vals' = Append(vals, Field(shown.s, parseIdr(shown, "number")))
  /\ UNCHANGED script

\* every text of at most n characters of the alphabet
Texts(alphabet, n) == UNION {[1..k -> alphabet] : k \in 0..n}

(***************************************************************************)
(* What the specification says of a text, written without the library:    *)
(* the sign, the digits before and after the first comma or dot, the       *)
(* grouping of an integer digit text.                                      *)
(***************************************************************************)
DigitsOf(s) == SelectSeq(s, IsDigit)

\* 1-based place of the first c in s, Len(s) + 1 when there is none
FirstPos(s, c) ==
  IF \E k \in 1..Len(s) : s[k] = c
  THEN CHOOSE k \in 1..Len(s) : s[k] = c /\ \A j \in 1..(k - 1) : s[j] # c
  ELSE Len(s) + 1

DigitsBefore(s, c) == DigitsOf(SubSeq(s, 1, FirstPos(s, c) - 1))

DigitsAfter(s, c) == DigitsOf(SubSeq(s, FirstPos(s, c) + 1, Len(s)))

HasMinus(s) == s # <<>> /\ s[1] = "-"

Magnitude(s) == IF HasMinus(s) THEN SubSeq(s, 2, Len(s)) ELSE s

MinusOf(s) == IF HasMinus(s) THEN <<"-">> ELSE <<>>

\* an integer digit text without superfluous leading zeros, "0" for none
RECURSIVE Canonical(_)
Canonical(d) ==
  IF d = <<>> THEN <<"0">>
  ELSE IF Len(d) > 1 /\ d[1] = "0" THEN Canonical(SubSeq(d, 2, Len(d)))
  ELSE d

\* digits in groups of three from the right, joined by "."
RECURSIVE GroupFrom(_, _)
GroupFrom(d, k) ==
  IF k > Len(d) THEN <<>>
  ELSE (IF k > 1 /\ (Len(d) - k + 1) % 3 = 0 THEN <<".", d[k]>> ELSE <<d[k]>>)
         \o GroupFrom(d, k + 1)

Grouped(d) == GroupFrom(Canonical(d), 1)

\* grouped integer part, then "," and the decimal digits when there are any
Display(minus, intDigits, decDigits) ==
  minus \o Grouped(intDigits)
    \o (IF decDigits = <<>> THEN <<>> ELSE <<",">> \o decDigits)

AllDigits(s) == \A k \in 1..Len(s) : s[k] \in Digits

\* 1 to 3 digits, then one or more groups of a dot and exactly 3 digits:
\* dots sit exactly at every fourth place from the right
IsGroupedInThrees(s) ==
  /\ Len(s) >= 5
  /\ Len(s) % 4 # 0
  /\ \A k \in 1..Len(s) :
       IF (Len(s) - k + 1) % 4 = 0 THEN s[k] = "." ELSE s[k] \in Digits

\* Indonesian-formatted text without noise: optional "-", digits ungrouped or
\* grouped by "." in threes, optional "," followed by decimal digits
ValidIdrText(t) ==
  LET m == Magnitude(t)
      p == FirstPos(m, ",")
      int == SubSeq(m, 1, p - 1)
      dec == SubSeq(m, p + 1, Len(m))
  IN /\ (int # <<>> /\ AllDigits(int)) \/ IsGroupedInThrees(int)
     /\ p <= Len(m) => dec # <<>> /\ AllDigits(dec)

\* the same with the integer part grouped and without leading zeros
StrictIdrText(t) ==
  LET int == SubSeq(Magnitude(t), 1, FirstPos(Magnitude(t), ",") - 1)
  IN /\ ValidIdrText(t)
     /\ IsGroupedInThrees(int) \/ Len(int) <= 3
     /\ int = <<"0">> \/ int[1] # "0"

\* equality of JS numbers: 0 and -0 are equal
NumEq(a, b) ==
  /\ a.k = "number" /\ b.k = "number"
  /\ a.i = b.i /\ a.d = b.d
  /\ NumIsZero(a) \/ a.neg = b.neg

\* equality of two parse results of the same mode
SameParse(a, b) == IF a.k = "number" THEN NumEq(a, b) ELSE a = b

(***************************************************************************)
(* Spec: Indonesian-formatted texts through the round trips of the tests   *)
(* (src/unnamed/part_003:134-158, src/src/index.ts:94-102).                *)
(***************************************************************************)
TextMaxLen == 7

TextChars == {"0", "1", ".", ",", "-"}

Modes == {"number", "fixed"}

\* parse(format(T)) beside parse(T)
TextRoundTrip(mode) ==
  <<FormatCall(1, Auto, FALSE), ParseCall(2, mode), ParseCall(1, mode)>>

\* format(parse(x))
ParseFormat == <<ParseCall(1, "number"), FormatCall(2, Auto, FALSE)>>

Init ==
  /\ script \in {TextRoundTrip(m) : m \in Modes} \cup {ParseFormat}
  /\ \E t \in Texts(TextChars, TextMaxLen) : ValidIdrText(t) /\ vals = <<Str(t)>>

Next == CallFormat \/ CallParse

Spec == Init /\ [][Next]_vars

InputText == vals[1].s

\* C4: for every valid Indonesian-formatted text T without noise,
\* parseIdr(formatIdr(T)) equals parseIdr(T), in number mode and in fixed mode.
C4_TextRoundTripPreservesValue ==
  (script \in {TextRoundTrip(m) : m \in Modes} /\ Done)
    => vals[3] # Null /\ SameParse(vals[3], vals[4])

\* a grouped text with decimals went through the round trip in fixed mode
C4_Witness ==
  /\ script = TextRoundTrip("fixed") /\ Done
  /\ IsGroupedInThrees(SubSeq(Magnitude(InputText), 1, FirstPos(Magnitude(InputText), ",") - 1))
  /\ Includes(InputText, ",")
  /\ vals[3].k = "fixed" /\ vals[3].scale > 0 /\ vals[3].units # <<"0">>

\* C5: formatIdr(parseIdr(x)) === x for every valid Indonesian-formatted
\* string x (integer part grouped in threes, no leading zeros, optional ","
\* and decimal digits), number mode and default options.  Negative zero
\* ("-0", "-0,0") is left out: whether it is valid text is not said.
C5_FormatOfParseIsIdentity ==
  (/\ script = ParseFormat /\ Done
   /\ StrictIdrText(InputText)
   /\ ~(HasMinus(InputText) /\ \A k \in 1..Len(InputText) : InputText[k] # "1"))
    => vals[3] = vals[1]

(***************************************************************************)
(* SpecExact: any text parsed in fixed mode, formatted, parsed again       *)
(* (src/unnamed/part_003:160-169).                                         *)
(***************************************************************************)
ExactMaxLen == 5

ExactChars == {"0", "1", ".", ",", "-"}

ExactRoundTrip ==
  <<ParseCall(1, "fixed"), FormatCall(2, Auto, FALSE), ParseCall(3, "fixed")>>

InitExact ==
  /\ script = ExactRoundTrip
  /\ \E t \in Texts(ExactChars, ExactMaxLen) : vals = <<Str(t)>>

SpecExact == InitExact /\ [][Next]_vars

\* C1: for every FixedPoint fx returned by parseIdr(T, fixed) with integer
\* digits I and decimal digits D, scale = |D| > 0, formatIdr(fx) with default
\* options is sign + grouping(I) + "," + D, for every scale.
C1_FixedFormatsExactly ==
  (script = ExactRoundTrip /\ Len(vals) >= 3 /\ vals[2] # Null /\ vals[2].scale > 0)
    => vals[3] = Str(Display(MinusOf(InputText),
                             DigitsBefore(Magnitude(InputText), ","),
                             DigitsAfter(Magnitude(InputText), ",")))

\* C2: when parseIdr(T, fixed) is non-null, parsing T in fixed mode, formatting
\* the FixedPoint and parsing the result in fixed mode again yields the same
\* sign, scale and unscaled integer.
C2_ExactRoundTrip ==
  (script = ExactRoundTrip /\ Done /\ vals[2] # Null) => vals[4] = vals[2]

(***************************************************************************)
(* SpecNumber: a JS number formatted and parsed back                       *)
(* (src/unnamed/part_003:135-148, samples 0, 12, 1050.32, -1050.5).        *)
(***************************************************************************)
NumMaxInt == 3

NumMaxFrac == 3

NumChars == {"0", "1", "5"}

\* the finite numbers with at most NumMaxInt integer digits and NumMaxFrac
\* fraction digits, as String() renders them: no superfluous zeros
Numbers ==
  {Num(neg, i, d) : neg \in BOOLEAN,
     i \in {x \in Texts(NumChars, NumMaxInt) : x # <<>> /\ Canonical(x) = x},
     d \in {x \in Texts(NumChars, NumMaxFrac) : x = <<>> \/ x[Len(x)] # "0"}}

NumberRoundTrip == <<FormatCall(1, Auto, FALSE), ParseCall(2, "number")>>

InitNumber ==
  /\ script = NumberRoundTrip
  /\ \E v \in Numbers : vals = <<v>>

SpecNumber == InitNumber /\ [][Next]_vars

\* C3: for every finite number V, parseIdr(formatIdr(V)) equals V, also for
\* values with exactly three fraction digits and an integer part below 1000.
C3_NumberRoundTrip ==
  (script = NumberRoundTrip /\ Done) => NumEq(vals[3], vals[1])

(***************************************************************************)
(* SpecFormat: any text of digits, dots, commas and minus signs, formatted *)
(* with default options and parsed (src/unnamed/part_003:14-27, 66-98).    *)
(***************************************************************************)
FormatMaxLen == 5

FormatChars == {"0", "1", ".", ",", "-"}

\* format(T) beside parse(T)
FormatAndParse(mode) == <<FormatCall(1, Auto, FALSE), ParseCall(1, mode)>>

InitFormat ==
  /\ script \in {FormatAndParse(m) : m \in Modes}
  /\ \E t \in Texts(FormatChars, FormatMaxLen) : vals = <<Str(t)>>

SpecFormat == InitFormat /\ [][Next]_vars

Formatted == script[1].fn = "formatIdr" /\ Len(vals) >= 2

\* the value of sign, integer digits and decimal digits, in each parse mode
ValueOf(mode, minus, intDigits, decDigits) ==
  IF mode = "fixed"
  THEN FixedIdr(IF minus THEN -1 ELSE 1, Canonical(intDigits \o decDigits), Len(decDigits))
  ELSE Num(minus, Canonical(intDigits), StripTrailingZeros(decDigits))

\* C6: for text made only of digits and "." with at least one dot, if it is
\* 1 to 3 digits followed by groups of a dot and exactly 3 digits the output
\* is the grouping of all its digits with no decimal part; otherwise the first
\* dot is the decimal point and the output is grouping(digits before the
\* first dot) + "," + the decimal digits.
C6_DotHeuristic ==
  (/\ script \in {FormatAndParse(m) : m \in Modes} /\ Formatted
   /\ Includes(InputText, ".")
   /\ \A k \in 1..Len(InputText) : InputText[k] \in Digits \cup {"."})
    => vals[2] = Str(IF IsGroupedInThrees(InputText)
                     THEN Grouped(DigitsOf(InputText))
                     ELSE Display(<<>>, DigitsBefore(InputText, "."),
                                  DigitsAfter(InputText, ".")))

\* C8: when the text has no comma and does not match the thousands-grouping
\* pattern, the first dot is the decimal point and the decimal part of the
\* output is every digit that follows the first dot, later dots stripped.
C8_LaterDotsKeepTheirDigits ==
  (/\ script \in {FormatAndParse(m) : m \in Modes} /\ Formatted
   /\ Includes(InputText, ".") /\ ~Includes(InputText, ",")
   /\ ~IsGroupedInThrees(Magnitude(InputText)))
    => DigitsAfter(vals[2].s, ",") = DigitsAfter(Magnitude(InputText), ".")

\* C9: whenever the text contains a comma, formatIdr and parseIdr take the
\* first comma as the decimal marker, remove every dot and drop every later
\* comma, the digits around it joining the decimal part; extra commas never
\* make the operation fail.
C9_FirstCommaOnly ==
  (/\ script \in {FormatAndParse(m) : m \in Modes} /\ Done
   /\ Includes(InputText, ","))
    => LET int == DigitsBefore(Magnitude(InputText), ",")
           dec == DigitsAfter(Magnitude(InputText), ",")
       IN /\ vals[2] = Str(Display(MinusOf(InputText), int, dec))
          /\ vals[3] = IF int \o dec = <<>> THEN Null
                       ELSE ValueOf(script[2].mode, HasMinus(InputText), int, dec)

\* a text with two commas, a dot and digits after the second comma was
\* formatted and parsed
C9_Witness ==
  /\ script = FormatAndParse("number") /\ Done
  /\ \E a, b \in 1..Len(InputText) :
       /\ a < b /\ b < Len(InputText)
       /\ InputText[a] = "," /\ InputText[b] = "," /\ InputText[b + 1] = "1"
  /\ Includes(InputText, ".")
  /\ vals[3] # Null

(***************************************************************************)
(* SpecRound: "I,D" formatted with decimals = N                            *)
(* (src/unnamed/part_003:53-63).                                           *)
(***************************************************************************)
RoundMaxInt == 3

RoundMaxDec == 2

MaxDecimals == 2

RoundChars == {"0", "4", "5", "9"}

FormatFixed(n) == <<FormatCall(1, n, FALSE)>>

RoundText(minus, int, dec) ==
  minus \o int \o (IF dec = <<>> THEN <<>> ELSE <<",">> \o dec)

InitRound ==
  /\ script \in {FormatFixed(n) : n \in 0..MaxDecimals}
  /\ \E minus \in {<<>>, <<"-">>} :
       \E int \in Texts(RoundChars, RoundMaxInt) \ {<<>>} :
         \E dec \in Texts(RoundChars, RoundMaxDec) :
           vals = <<Str(RoundText(minus, int, dec))>>

NextFormat == CallFormat

SpecRound == InitRound /\ [][NextFormat]_vars

RECURSIVE ToNat(_)
ToNat(d) ==
  IF d = <<>> THEN 0 ELSE 10 * ToNat(SubSeq(d, 1, Len(d) - 1)) + DigitVal(d[Len(d)])

RECURSIVE NatDigits(_)
NatDigits(n) ==
  IF n < 10 THEN <<DigitChar(n)>> ELSE NatDigits(n \div 10) \o <<DigitChar(n % 10)>>

RECURSIVE Pow10(_)
Pow10(n) == IF n = 0 THEN 1 ELSE 10 * Pow10(n - 1)

\* floor(I.D * 10^n + 1/2): I.D cut after n + 1 decimals, half a unit of the
\* n-th decimal added, the last decimal dropped
RoundHalfUp(int, dec, n) ==
  IF Len(dec) <= n
  THEN ToNat(int \o dec) * Pow10(n - Len(dec))
  ELSE (ToNat(int \o SubSeq(dec, 1, n + 1)) + 5) \div 10

\* C10: for every integer digit text I, decimal digit text D and N >= 0,
\* formatIdr with decimals = N renders the magnitude I.D rounded half-up to N
\* decimals, floor(I.D * 10^N + 1/2) re-split at N digits, the carry going
\* through all decimal and integer digits, shorter decimal parts zero-padded.
C10_RoundsHalfUp ==
  (script \in {FormatFixed(n) : n \in 0..MaxDecimals} /\ Done)
    => LET n == script[1].decimals
           int == DigitsBefore(Magnitude(InputText), ",")
           dec == DigitsAfter(Magnitude(InputText), ",")
           m == RoundHalfUp(int, dec, n)
       IN vals[2] = Str(MinusOf(InputText)
                          \o Grouped(NatDigits(m \div Pow10(n)))
                          \o (IF n = 0 THEN <<>>
                              ELSE <<",">> \o PadStart(NatDigits(m % Pow10(n)), n, "0")))

\* a rounding whose carry ran through every decimal and integer digit
C10_Witness ==
  /\ script = FormatFixed(1) /\ Done
  /\ InputText = <<"9", "9", "9", ",", "9", "5">>
  /\ vals[2] = Str(<<"1", ".", "0", "0", "0", ",", "0">>)

(***************************************************************************)
(* SpecNoise: a text formatted as it is and with one more character that   *)
(* is no digit, dot or comma (src/unnamed/part_003:35-38, "Rp 1a0b50,32"). *)
(***************************************************************************)
NoiseMaxLen == 5

CleanChars == {"0", "1", ".", ","}

NoiseChars == {"a", " ", "-"}

\* format(T) beside format(T with ch at offset `at`)
WithNoise(at, ch) ==
  <<FormatCall(1, Auto, FALSE), InsertCall(1, at, ch), FormatCall(3, Auto, FALSE)>>

InitNoise ==
  \E t \in Texts(CleanChars, NoiseMaxLen) :
    \E at \in 0..Len(t) :
      \E ch \in NoiseChars :
        /\ ch = "-" => at > 0
        /\ script = WithNoise(at, ch)
        /\ vals = <<Str(t)>>

NextNoise == CallFormat \/ EditText

SpecNoise == InitNoise /\ [][NextNoise]_vars

\* C7: formatIdr discards every character outside [0-9.,] wherever it appears:
\* for every text T and every T' got from T by inserting such a character
\* anywhere (other than a "-" at the front), formatIdr(T') = formatIdr(T).
\* The empty text, the no-value case, is left out.
C7_NoiseIsDiscarded ==
  (script[2].fn = "insert" /\ Done /\ InputText # <<>>) => vals[4] = vals[2]

(***************************************************************************)
(* SpecOptions: null or any text, formatted under every options value or   *)
(* parsed in either mode (src/unnamed/part_003:40-63, 89-97).              *)
(***************************************************************************)
OptMaxLen == 4

OptChars == {"0", "5", "9", ".", ",", "-"}

DecimalsValues == {Auto} \cup 0..MaxDecimals

FormatWith(decimals, padZeros) == <<FormatCall(1, decimals, padZeros)>>

ParseIn(mode) == <<ParseCall(1, mode)>>

InitOptions ==
  /\ script \in {FormatWith(d, p) : d \in DecimalsValues, p \in BOOLEAN}
                  \cup {ParseIn(m) : m \in Modes}
  /\ vals \in {<<Null>>} \cup {<<Str(t)>> : t \in Texts(OptChars, OptMaxLen)}

SpecOptions == InitOptions /\ [][Next]_vars

FormatDone == script[1].fn = "formatIdr" /\ Len(vals) >= 2

NoValue(v) == v = Null \/ v = Str(<<>>)

CountOf(s, c) == Cardinality({k \in 1..Len(s) : s[k] = c})

\* C11: for every non-empty input and every N > 0, formatIdr with decimals = N
\* returns a text with exactly one comma followed by exactly N digits; with
\* decimals = 0 it returns a text with no comma and no decimal digits.
C11_FixedDecimalsShape ==
  (FormatDone /\ script[1].decimals # Auto /\ ~NoValue(vals[1]))
    => LET out == vals[2].s
           n == script[1].decimals
       IN IF n > 0
          THEN /\ CountOf(out, ",") = 1
               /\ Len(out) > n
               /\ out[Len(out) - n] = ","
               /\ \A k \in (Len(out) - n + 1)..Len(out) : out[k] \in Digits
          ELSE /\ CountOf(out, ",") = 0
               /\ out = MinusOf(out) \o Grouped(DigitsOf(out))

\* a text without decimal part was padded to two decimals, and a carry made
\* the integer part one digit longer
C11_Witness ==
  /\ FormatDone /\ ~NoValue(vals[1])
  /\ \/ /\ script[1].decimals = 2 /\ InputText = <<"5">>
        /\ vals[2] = Str(<<"5", ",", "0", "0">>)
     \/ /\ script[1].decimals = 1 /\ InputText = <<"9", ",", "9", "5">>
        /\ vals[2] = Str(<<"1", "0", ",", "0">>)

\* the integer and decimal digits the specification reads in a text with a
\* comma, or with no comma and one dot at most
TypedInt(t) ==
  IF Includes(t, ",") THEN DigitsBefore(Magnitude(t), ",")
  ELSE IF IsGroupedInThrees(Magnitude(t)) THEN DigitsOf(t)
  ELSE DigitsBefore(Magnitude(t), ".")

TypedDec(t) ==
  IF Includes(t, ",") THEN DigitsAfter(Magnitude(t), ",")
  ELSE IF IsGroupedInThrees(Magnitude(t)) THEN <<>>
  ELSE DigitsAfter(Magnitude(t), ".")

ParseDone == script[1].fn = "parseIdr" /\ Len(vals) >= 2

GroupMaxLen == 8

GroupChars == {"0", "1"}

\* integers as the tests pass them: 0, 1000, 1000000, ...
IntegerNumbers ==
  {Num(FALSE, StripLeadingZeros(t), <<>>) : t \in Texts(GroupChars, GroupMaxLen) \ {<<>>}}

InitGroup ==
  /\ script \in {FormatWith(d, FALSE) : d \in DecimalsValues}
  /\ vals \in {<<Str(t)>> : t \in Texts(GroupChars, GroupMaxLen) \ {<<>>}}
                \cup {<<n>> : n \in IntegerNumbers}

SpecGroup == InitGroup /\ [][NextFormat]_vars

\* the digit string passed in, of a text or of an integer number
InputDigits == IF vals[1].k = "number" THEN vals[1].i ELSE vals[1].s

\* the part of the output before the comma
IntegerPart(out) == SubSeq(out, 1, FirstPos(out, ",") - 1)

\* C13: for every digit string, of a text or of an integer number, the integer
\* part of the output is the string without superfluous leading zeros ("0"
\* for zero) cut in groups of 3 digits from the right joined by ".", the
\* leftmost group of 1 to 3 digits; the number 0 gives "0", not "".
C13_GroupingCorrect ==
  FormatDone
    => LET int == IntegerPart(vals[2].s)
       IN /\ SelectSeq(int, NotDot) = Canonical(InputDigits)
          /\ IsGroupedInThrees(int) \/ (Len(int) \in 1..3 /\ AllDigits(int))
          /\ int = Grouped(InputDigits)

\* format(1000000) == "1.000.000", format("0000") == "0", format(0) == "0"
C13_Witness ==
  /\ FormatDone /\ script[1].decimals = Auto
  /\ \/ /\ vals[1] = Num(FALSE, <<"1", "0", "0", "0", "0", "0", "0">>, <<>>)
        /\ vals[2] = Str(<<"1", ".", "0", "0", "0", ".", "0", "0", "0">>)
     \/ vals[1] = Str(<<"0", "0", "0", "0">>) /\ vals[2] = Str(<<"0">>)
     \/ vals[1] = Num(FALSE, <<"0">>, <<>>) /\ vals[2] = Str(<<"0">>)


(***************************************************************************)
(* SpecSign: a text without minus, and the same text with a "-" put in     *)
(* front of it or somewhere after its first characters, both formatted     *)
(* under the same options or both parsed in the same mode.                 *)
(***************************************************************************)
SignMaxLen == 5

SignChars == {"1", ".", ",", " "}

\* f(T) beside f(T with "-" at offset `at`), f being formatIdr with options
FormatWithMinus(at, decimals, padZeros) ==
  <<FormatCall(1, decimals, padZeros), InsertCall(1, at, "-"),
    FormatCall(3, decimals, padZeros)>>

\* the same, f being parseIdr in a mode
ParseWithMinus(at, mode) ==
  <<ParseCall(1, mode), InsertCall(1, at, "-"), ParseCall(3, mode)>>

InitSign ==
  \E t \in Texts(SignChars, SignMaxLen) \ {<<>>} :
    \E at \in 0..Len(t) :
      /\ vals = <<Str(t)>>
      /\ script \in {FormatWithMinus(at, d, p) : d \in DecimalsValues, p \in BOOLEAN}
                      \cup {ParseWithMinus(at, m) : m \in Modes}

NextSign == CallFormat \/ CallParse \/ EditText

SpecSign == InitSign /\ [][NextSign]_vars

\* the negation of a parse result, null for null
Negated(v) ==
  IF v.k = "number" THEN [v EXCEPT !.neg = ~v.neg]
  ELSE IF v.k = "fixed" THEN [v EXCEPT !.sign = -v.sign]
  ELSE v

NonNegative(v) ==
  IF v.k = "string" THEN ~HasMinus(v.s)
  ELSE IF v.k = "number" THEN ~v.neg \/ NumIsZero(v)
  ELSE IF v.k = "fixed" THEN v.sign = 1
  ELSE TRUE

\* the "-" went in front of the text
MinusInFront == Done /\ script[2].at = 0

\* the "-" went after a character that is not whitespace
MinusMisplaced ==
  /\ Done
  /\ \E k \in 1..script[2].at : InputText[k] \notin Whitespace

\* formatIdr("-" + T, o) = "-" + formatIdr(T, o); parseIdr("-" + T) = -parseIdr(T)
LeadingMinusKept ==
  MinusInFront
    => IF script[1].fn = "formatIdr"
       THEN vals[4] = Str(<<"-">> \o vals[2].s)
       ELSE SameParse(vals[4], Negated(vals[2])) /\ vals[4].k = vals[2].k

\* a minus elsewhere leaves a non-negative result
MisplacedMinusNonNegative == MinusMisplaced => NonNegative(vals[4])

\* a minus elsewhere is noise: the result is that of the text without it
MisplacedMinusDiscarded == MinusMisplaced => SameParse(vals[4], vals[2])

\* C14: a minus in front of the text comes back as exactly one leading "-":
\* formatIdr("-" + T, o) = "-" + formatIdr(T, o) and parseIdr("-" + T) is the
\* negation of parseIdr(T), null when that is null; a minus anywhere else is
\* discarded as noise and the result is non-negative.
C14_SignPreserved ==
  /\ LeadingMinusKept
  /\ MisplacedMinusNonNegative
  /\ MisplacedMinusDiscarded


(***************************************************************************)
(* SpecGarbage: texts without any digit, formatted with the default        *)
(* options and parsed (src/unnamed/part_003:89-97).                        *)
(***************************************************************************)
GarbageMaxLen == 5

GarbageChars == {"a", ".", ",", " ", "-"}

InitGarbage ==
  /\ script \in {FormatAndParse(m) : m \in Modes}
  /\ vals \in {<<Str(t)>> : t \in Texts(GarbageChars, GarbageMaxLen) \ {<<>>}}

SpecGarbage == InitGarbage /\ [][Next]_vars

\* the first character that is not whitespace is "-"
StartsWithMinus(t) ==
  \E k \in 1..Len(t) : t[k] = "-" /\ \A j \in 1..(k - 1) : t[j] \in Whitespace

LettersOnly(t) == t # <<>> /\ \A k \in 1..Len(t) : t[k] = "a"

DotsMaxLen == 5

DotsChars == {"0", "1", ".", ",", "-", " "}

\* parse(T) beside parse(T with all dots deleted)
ParseWithoutDots(mode) ==
  <<ParseCall(1, mode), RemoveCall(1, "."), ParseCall(3, mode)>>

InitDots ==
  /\ script \in {ParseWithoutDots(m) : m \in Modes}
  /\ vals \in {<<Str(t)>> : t \in Texts(DotsChars, DotsMaxLen)}

NextDots == CallParse \/ RemoveChars

SpecDots == InitDots /\ [][NextDots]_vars

C19_ExactConstruction ==
  (Len(vals) >= 2 /\ script[1].mode = "fixed" /\ DigitsOf(InputText) # <<>>)
    => LET int == DigitsBefore(InputText, ",")
           dec == DigitsAfter(InputText, ",")
       IN /\ vals[2].k = "fixed"
          /\ vals[2].sign = (IF StartsWithMinus(InputText) THEN -1 ELSE 1)
          /\ vals[2].scale = Len(dec)
          /\ vals[2].units = Canonical(int \o dec)
          /\ int \o dec = DigitsOf(InputText)

\* "-01,0" gives sign -1, scale 1, units 10
C19_Witness ==
  /\ Len(vals) >= 2 /\ script[1].mode = "fixed"
  /\ InputText = <<"-", "0", "1", ",", "0">>
  /\ vals[2] = FixedIdr(-1, <<"1", "0">>, 1)


(***************************************************************************)
(* SpecToString: a text parsed in fixed mode and the canonical string of   *)
(* the FixedIdr returned (src/unnamed/part_003:101-117).                   *)
(***************************************************************************)
CanonMaxLen == 6

CanonChars == {"0", "5", ".", ",", "-"}

ParseToString == <<ParseCall(1, "fixed"), ToStringCall(2)>>

InitToString ==
  /\ script = ParseToString
  /\ vals \in {<<Str(t)>> : t \in Texts(CanonChars, CanonMaxLen)}

NextToString == CallParse \/ CallToString

SpecToString == InitToString /\ [][NextToString]_vars

\* the last n digits of u, zeros standing for the digits u does not have
LastDigits(u, n) ==
  [k \in 1..n |-> IF Len(u) - n + k >= 1 THEN u[Len(u) - n + k] ELSE "0"]

\* the digits of u before its last n, "0" when there are none
LeadingDigits(u, n) == IF Len(u) > n THEN SubSeq(u, 1, Len(u) - n) ELSE <<"0">>

\* C20: toString() of a FixedIdr is sign + integer part when scale = 0, and
\* otherwise sign + integer part + "." + fraction, the fraction being the last
\* `scale` digits of the units left-padded with zeros, exactly `scale` digits,
\* and the integer part the remaining leading digits, "0" when there are
\* none; for a value parsed from integer digits I and decimal digits D it is
\* sign + I without leading zeros + "." + D.
C20_CanonicalString ==
  (script = ParseToString /\ Done)
    => LET fx == vals[2]
           out == vals[3].s
           minus == IF fx.sign = -1 THEN <<"-">> ELSE <<>>
           int == DigitsBefore(InputText, ",")
           dec == DigitsAfter(InputText, ",")
       IN /\ fx.scale = 0 => out = minus \o fx.units
          /\ fx.scale > 0
               => /\ out = minus \o LeadingDigits(fx.units, fx.scale)
                              \o <<".">> \o LastDigits(fx.units, fx.scale)
                  /\ Len(DigitsAfter(out, ".")) = fx.scale
                  /\ out = minus \o Canonical(int) \o <<".">> \o dec

\* units 5 at scale 2 give "0.05"; "-5.005" gives "-5005"
C20_Witness ==
  /\ script = ParseToString /\ Done
  /\ \/ vals[2] = FixedIdr(1, <<"5">>, 2) /\ vals[3] = Str(<<"0", ".", "0", "5">>)
     \/ /\ InputText = <<"-", "5", ".", "0", "0", "5">>
        /\ vals[3] = Str(<<"-", "5", "0", "0", "5">>)


(***************************************************************************)
(* SpecKeys: the Stimulus controller of the README                         *)
(* (src/unnamed/part_005:206-239) on an empty input, the user typing a     *)
(* target text one character at a time.                                    *)
(***************************************************************************)
KeysMaxInt == 4

KeysMaxDec == 2

KeysChars == {"0", "1", "5"}

\* the keystrokes that type the text t
Typing(t) == [k \in 1..Len(t) |-> TypeCall(t[k])]

\* digits, one comma, decimal digits
Targets ==
  {i \o <<",">> \o d : i \in Texts(KeysChars, KeysMaxInt) \ {<<>>},
                        d \in Texts(KeysChars, KeysMaxDec) \ {<<>>}}

\* connect() has run format() on the empty input: nothing shown, nothing parsed
InitKeys ==
  /\ script \in {Typing(t) : t \in Targets}
  /\ vals = <<Field(<<>>, Null)>>

NextKeys == Keystroke

SpecKeys == InitKeys /\ [][NextKeys]_vars

\* the text the script types
Target == [k \in 1..Len(script) |-> script[k].ch]

\* C21: when every typed character is followed by the host's format(), then
\* for every target of digits, one comma and decimal digits typed from an
\* empty field, the final display is formatIdr(target) and the value
\* submitted is parseIdr(target).
C21_KeystrokeLoop ==
  Done
    => /\ vals[Len(vals)].s = formatIdr(Str(Target), Auto, FALSE).s
       /\ SameParse(vals[Len(vals)].hidden, parseIdr(Str(Target), "number"))


(***************************************************************************)
(* SpecParse: any text of digits, separators, sign, whitespace and         *)
(* letters, parsed in both modes (src/unnamed/part_003:66-118).            *)
(***************************************************************************)
ParseMaxLen == 5

ParseChars == {"5", "a", ".", ",", "-", " "}

\* the two modes on the same text
ParseBoth == <<ParseCall(1, "number"), ParseCall(1, "fixed")>>

InitParse ==
  /\ script = ParseBoth
  /\ vals \in {<<Str(t)>> : t \in Texts(ParseChars, ParseMaxLen)}

NextParse == CallParse

SpecParse == InitParse /\ [][NextParse]_vars

\* C22: parseIdr returns null exactly when the text has no digit, in both
\* modes: a text with a digit never gives null whatever separators, noise or
\* sign surround it, and a text without digit, the empty text included,
\* always does.
C22_NullIffNoDigit ==
  (script = ParseBoth /\ Done)
    => \A k \in {2, 3} : vals[k] = Null <=> DigitsOf(InputText) = <<>>

\* ",5" parses as 0.5 and "5," as 5
C22_Witness ==
  /\ script = ParseBoth /\ Done
  /\ \/ InputText = <<",", "5">> /\ vals[2] = Num(FALSE, <<"0">>, <<"5">>)
     \/ InputText = <<"5", ",">> /\ vals[2] = Num(FALSE, <<"5">>, <<>>)


\* sign * units / 10^scale of a FixedIdr, as an exact decimal
DecimalOf(fx) ==
  Num(fx.sign = -1, LeadingDigits(fx.units, fx.scale),
      StripTrailingZeros(LastDigits(fx.units, fx.scale)))

ShapeMaxLen == 4

ShapeChars == {"0", "9", ".", ",", "-", "a", " "}

InitShape ==
  /\ script \in {FormatWith(d, p) : d \in DecimalsValues, p \in BOOLEAN}
  /\ vals \in {<<Str(t)>> : t \in Texts(ShapeChars, ShapeMaxLen) \ {<<>>}}

SpecShape == InitShape /\ [][NextFormat]_vars

TwiceMaxLen == 4

TwiceChars == {"0", "9", ".", ",", "-", "a"}

\* formatIdr(formatIdr(x, o), o)
FormatTwice(decimals, padZeros) ==
  <<FormatCall(1, decimals, padZeros), FormatCall(2, decimals, padZeros)>>

InitTwice ==
  /\ script \in {FormatTwice(d, p) : d \in DecimalsValues, p \in BOOLEAN}
  /\ vals \in {<<Null>>} \cup {<<Str(t)>> : t \in Texts(TwiceChars, TwiceMaxLen)}
                \cup {<<n>> : n \in Numbers}

SpecTwice == InitTwice /\ [][NextFormat]_vars

\* C25: formatIdr is idempotent under fixed options: for every input x and
\* every options o, formatIdr(formatIdr(x, o), o) = formatIdr(x, o); the
\* dots of a formatted text are read back as thousands separators and its
\* comma as the decimal marker.
C25_Idempotent ==
  (script[1].fn = "formatIdr" /\ Len(script) = 2 /\ script[2].on = 2 /\ Done)
    => vals[3] = vals[2]

\* "9999" gives "9.999", which stays "9.999"; "9,9" at 2 decimals "9,90"
C25_Witness ==
  /\ Len(script) = 2 /\ script[2].fn = "formatIdr" /\ script[2].on = 2 /\ Done
  /\ \/ /\ vals[1] = Str(<<"9", "9", "9", "9">>) /\ script[1].decimals = Auto
        /\ vals[3] = Str(<<"9", ".", "9", "9", "9">>)
     \/ /\ vals[1] = Str(<<"9", ",", "9">>) /\ script[1].decimals = 2
        /\ vals[3] = Str(<<"9", ",", "9", "0">>)

====
